---- MODULE Spec2Model ----
(***************************************************************************)
(* Model of ui/icons.py: the import-time renderer capability, _svg_icon    *)
(* (SVG text -> QIcon) and toolbar_icons (size -> name -> QIcon).          *)
(* Every statement of the two functions is one step; program positions are *)
(* named after the source line they are about to execute.                  *)
(*                                                                         *)
(* Qt objects are modelled by what the calls in the source do to them:     *)
(*   - a QPixmap is a heap cell [w, h, pixels, painter, log];              *)
(*   - pixels are [fill, drawn]: the colour the bitmap was last filled     *)
(*     with and the list of documents rendered over it since.  QPixmap(w,h)*)
(*     leaves the pixels uninitialised: the fill is one of Uninitialised,  *)
(*     chosen nondeterministically;                                        *)
(*   - QSvgRenderer.render is a function of the document, the painter's    *)
(*     hints and the target rectangle, recorded symbolically.              *)
(***************************************************************************)
EXTENDS Integers, Sequences, FiniteSets, TLC

VARIABLES
    QSvgRenderer,   \* module-level name bound at import (lines 8-11)
    pc,             \* the line about to be executed, or "idle" / "raised"
    frame,          \* locals of the running toolbar_icons call
    call,           \* locals of the running _svg_icon call
    heap,           \* every QPixmap allocated so far
    returned,       \* mappings toolbar_icons has returned, oldest first
    icons           \* icons returned by direct _svg_icon calls, oldest first

vars == <<QSvgRenderer, pc, frame, call, heap, returned, icons>>

----------------------------------------------------------------------------
\* Bounds of the model.
MaxCalls == 2

\* Sizes passed explicitly: one, two and three decimal digits, and the default.
Sizes == {7, 24, 128}

\* Backgrounds passed to _svg_icon directly.
Colours == {"Qt.white"}

\* What an unfilled QPixmap may hold.
Uninitialised == {"uninitialised-0", "uninitialised-1"}

----------------------------------------------------------------------------
\* Python / Qt values.
None == "None"
RendererClass == "PySide6.QtSvg.QSvgRenderer"
Transparent == "Qt.transparent"
Antialiasing == "QPainter.Antialiasing"

ToolbarDefaultSize == 24
SvgIconDefaultSize == 24

NotGiven == [given |-> FALSE, value |-> 0]
Given(v) == [given |-> TRUE, value |-> v]

\* str(int), as the f-string's {size} formats it.
Digit(d) ==
    CASE d = 0 -> "0" [] d = 1 -> "1" [] d = 2 -> "2" [] d = 3 -> "3"
      [] d = 4 -> "4" [] d = 5 -> "5" [] d = 6 -> "6" [] d = 7 -> "7"
      [] d = 8 -> "8" [] d = 9 -> "9"

RECURSIVE Decimal(_)
Decimal(n) ==
    IF n < 10 THEN Digit(n) ELSE Decimal(n \div 10) \o Digit(n % 10)

IntToStr(n) == IF n < 0 THEN "-" \o Decimal(0 - n) ELSE Decimal(n)

\* Mutant: the viewBox follows the requested size.
Header_scaledViewBox(size) ==
    "<svg xmlns=\"http://www.w3.org/2000/svg\" width=\"" \o IntToStr(size)
    \o "\" height=\"" \o IntToStr(size) \o "\" "
    \o "viewBox=\"0 0 " \o IntToStr(size) \o " " \o IntToStr(size)
    \o "\" fill=\"none\" stroke=\"black\" stroke-width=\"1.4\" "
    \o "stroke-linecap=\"round\" stroke-linejoin=\"round\">"

\* lines 44-48: the shared header.
Header(size) ==
    "<svg xmlns=\"http://www.w3.org/2000/svg\" width=\"" \o IntToStr(size)
    \o "\" height=\"" \o IntToStr(size) \o "\" "
    \o "viewBox=\"0 0 24 24\" fill=\"none\" stroke=\"black\" stroke-width=\"1.4\" "
    \o "stroke-linecap=\"round\" stroke-linejoin=\"round\">"

\* Mutant: the last entry of the dict literal is lost.
SvgKeys_noUndo ==
    <<"pan", "zoom_in", "zoom_out", "show_all", "rotate_left", "rotate_right",
      "reset_view", "edit", "erase">>

\* Insertion order of the dict literal, lines 51-125.
SvgKeys ==
    <<"pan", "zoom_in", "zoom_out", "show_all", "rotate_left", "rotate_right",
      "reset_view", "edit", "erase", "undo">>

\* The literal drawing of each name, lines 55-123.
Fragment(k) ==
    CASE k = "pan" ->
            "<path d=\"M7 12V6.5a1.8 1.8 0 0 1 3.6 0V12\"/>"
            \o "<path d=\"M10.6 12V5.5a1.8 1.8 0 0 1 3.6 0V12\"/>"
            \o "<path d=\"M14.2 12V7.5a1.8 1.8 0 0 1 3.6 0V14\"/>"
            \o "<path d=\"M6.5 12.5c-1.4-1-3.5-.1-3.5 1.7V16c0 3.3 2.7 6 6 6h5.8c2.6 0 4.2-1.8 4.2-4.2V14\"/>"
      [] k = "zoom_in" ->
            "<circle cx=\"11\" cy=\"11\" r=\"6\"/>"
            \o "<path d=\"M20 20l-3.5-3.5\"/>"
            \o "<path d=\"M11 8.8v4.4\"/>"
            \o "<path d=\"M8.8 11h4.4\"/>"
      [] k = "zoom_out" ->
            "<circle cx=\"11\" cy=\"11\" r=\"6\"/>"
            \o "<path d=\"M20 20l-3.5-3.5\"/>"
            \o "<path d=\"M8.8 11h4.4\"/>"
      [] k = "show_all" ->
            "<path d=\"M8 3H3v5\"/>"
            \o "<path d=\"M16 3h5v5\"/>"
            \o "<path d=\"M21 16v5h-5\"/>"
            \o "<path d=\"M3 16v5h5\"/>"
            \o "<path d=\"M12 9v6\"/>"
            \o "<path d=\"M9 12h6\"/>"
      [] k = "rotate_left" ->
            "<path d=\"M8.2 6.2a8 8 0 1 1-2.2 5.8\"/>"
            \o "<path d=\"M6 4v4h4\"/>"
      [] k = "rotate_right" ->
            "<path d=\"M15.8 6.2a8 8 0 1 0 2.2 5.8\"/>"
            \o "<path d=\"M18 4v4h-4\"/>"
      [] k = "reset_view" ->
            "<path d=\"M21 12a9 9 0 1 1-2.6-6.4\"/>"
            \o "<path d=\"M21 3v6h-6\"/>"
      [] k = "edit" ->
            "<path d=\"M12 20h9\"/>"
            \o "<path d=\"M16.5 3.5a2.1 2.1 0 0 1 3 3L7 19l-4 1 1-4L16.5 3.5z\"/>"
      [] k = "erase" ->
            "<path d=\"M4 7h16\"/>"
            \o "<path d=\"M6 7l1 14h10l1-14\"/>"
            \o "<path d=\"M9 7V4h6v3\"/>"
      [] k = "undo" ->
            "<path d=\"M9 14l-4-4 4-4\"/>"
            \o "<path d=\"M5 10h8a6 6 0 1 1 0 12h-2\"/>"

\* One entry of the dict literal: base + fragment + "</svg>".
Document(base, k) == base \o Fragment(k) \o "</svg>"

\* The dict literal of lines 51-125.
Svgs(base) ==
    [k \in {SvgKeys[i] : i \in 1..Len(SvgKeys)} |-> Document(base, k)]

\* Documents handed to _svg_icon by a direct caller.
DirectDocs == {Document(Header(SvgIconDefaultSize), "undo")}

----------------------------------------------------------------------------
\* Values of the locals when no call is running.
EmptyDict == [k \in {} |-> ""]
NoFrame ==
    [arg |-> NotGiven, size |-> 0, base |-> "", svgs |-> EmptyDict,
     result |-> EmptyDict, i |-> 0]
NoCall ==
    [caller |-> "", svg |-> "", arg |-> NotGiven, size |-> 0,
     background |-> None, renderer |-> "", pixmap |-> 0, hints |-> {}]

\* QIcon() and QIcon(pixmap).
EmptyIcon == [null |-> TRUE, pixmap |-> 0]
PixmapIcon(p) == [null |-> FALSE, pixmap |-> p]

\* Mutant: toolbar_icons defaults to 16 pixels.
ToolbarSize_default16(arg) == IF arg.given THEN arg.value ELSE 16

\* line 38 / line 14: the size parameter and its default.
ToolbarSize(arg) == IF arg.given THEN arg.value ELSE ToolbarDefaultSize
SvgIconSize(arg) == IF arg.given THEN arg.value ELSE SvgIconDefaultSize

\* Mutant: the capability test is dropped.
RendererMissing_never == FALSE

\* Mutant: the capability is lost after the first bitmap was made.
RendererMissing_afterFirst == QSvgRenderer = None \/ Len(heap) >= 1

\* line 21: the capability test.
RendererMissing == QSvgRenderer = None

\* Mutant: the bitmap is always allocated at the default size.
NewPixmap_defaultSize(size, junk) ==
    [w |-> SvgIconDefaultSize, h |-> SvgIconDefaultSize,
     pixels |-> [fill |-> junk, drawn |-> <<>>],
     painter |-> "none", log |-> <<"QPixmap">>]

\* line 25: QPixmap(size, size), pixels not initialised.
NewPixmap(size, junk) ==
    [w |-> size, h |-> size, pixels |-> [fill |-> junk, drawn |-> <<>>],
     painter |-> "none", log |-> <<"QPixmap">>]

\* Mutant: one bitmap object is reused for every icon.
NewPixmapId_shared == IF Len(heap) = 0 THEN Len(heap) + 1 ELSE Len(heap)

\* line 25: the pixmap is a new object.
NewPixmapId == Len(heap) + 1

\* Mutant: the background argument is ignored.
FillColour_alwaysTransparent(background) == Transparent

\* lines 26-29: the colour handed to fill.
FillColour(background) ==
    IF background = None THEN Transparent ELSE background

\* Mutant: the bitmap is never filled.
Filled_notAtAll(px, colour) == [px EXCEPT !.log = Append(@, "fill")]

\* QPixmap.fill: every pixel becomes the colour.
Filled(px, colour) ==
    [px EXCEPT !.pixels = [fill |-> colour, drawn |-> <<>>],
               !.log = Append(@, "fill")]

\* line 33: the renderer paints its document over the painter's device.
Rendered(px, svg, hints) ==
    [px EXCEPT !.pixels.drawn =
                   Append(@, [svg |-> svg, hints |-> hints, w |-> px.w, h |-> px.h]),
               !.log = Append(@, "render")]

\* line 127: the value the comprehension hands to _svg_icon for key k.
ComprehensionValue(k) == frame.svgs[k]

\* Mutant: one module-level dict is updated and returned by every call.
ToolbarReturn_sharedDict(rec) ==
    Append([i \in DOMAIN returned |-> [returned[i] EXCEPT !.result = rec.result]],
           rec)

\* The mapping handed back to the caller of toolbar_icons.
ToolbarReturn(rec) == Append(returned, rec)

----------------------------------------------------------------------------
Init ==
    /\ QSvgRenderer \in {RendererClass, None}
    /\ pc = "idle"
    /\ frame = NoFrame
    /\ call = NoCall
    /\ heap = <<>>
    /\ returned = <<>>
    /\ icons = <<>>

CallsMade == Len(returned) + Len(icons)

\* A caller invokes toolbar_icons(size) or toolbar_icons().
CallToolbarIcons ==
    /\ pc = "idle"
    /\ CallsMade < MaxCalls
    /\ \E arg \in {NotGiven} \cup {Given(s) : s \in Sizes} :
          frame' = [NoFrame EXCEPT !.arg = arg, !.size = ToolbarSize(arg)]
    /\ pc' = "L44"
    /\ UNCHANGED <<QSvgRenderer, call, heap, returned, icons>>

\* lines 44-48
BuildBase ==
    /\ pc = "L44"
    /\ frame' = [frame EXCEPT !.base = Header(frame.size)]
    /\ pc' = "L51"
    /\ UNCHANGED <<QSvgRenderer, call, heap, returned, icons>>

\* lines 51-125
BuildSvgs ==
    /\ pc = "L51"
    /\ frame' = [frame EXCEPT !.svgs = Svgs(frame.base), !.i = 1]
    /\ pc' = "L127"
    /\ UNCHANGED <<QSvgRenderer, call, heap, returned, icons>>

\* line 127: the next item of svgs.items(), or the return of the mapping.
Comprehension ==
    /\ pc = "L127"
    /\ IF frame.i <= Len(SvgKeys)
       THEN /\ call' = [NoCall EXCEPT !.caller = "toolbar_icons",
                                      !.svg = ComprehensionValue(SvgKeys[frame.i]),
                                      !.arg = Given(frame.size),
                                      !.size = SvgIconSize(Given(frame.size))]
            /\ pc' = "L21"
            /\ UNCHANGED <<frame, returned>>
       ELSE /\ returned' = ToolbarReturn([arg |-> frame.arg, size |-> frame.size,
                                          base |-> frame.base, svgs |-> frame.svgs,
                                          result |-> frame.result])
            /\ frame' = NoFrame
            /\ pc' = "idle"
            /\ UNCHANGED call
    /\ UNCHANGED <<QSvgRenderer, heap, icons>>

\* A caller invokes _svg_icon(svg, size, background) itself.
CallSvgIcon ==
    /\ pc = "idle"
    /\ CallsMade < MaxCalls
    /\ \E svg \in DirectDocs, arg \in {NotGiven} \cup {Given(s) : s \in Sizes},
          bg \in {None} \cup Colours :
          call' = [NoCall EXCEPT !.caller = "direct", !.svg = svg, !.arg = arg,
                                 !.size = SvgIconSize(arg), !.background = bg]
    /\ pc' = "L21"
    /\ UNCHANGED <<QSvgRenderer, frame, heap, returned, icons>>

\* _svg_icon returns icon to whoever called it.
Deliver(icon) ==
    IF call.caller = "toolbar_icons"
    THEN /\ frame' = [frame EXCEPT !.result = @ @@ (SvgKeys[frame.i] :> icon),
                                   !.i = @ + 1]
         /\ pc' = "L127"
         /\ UNCHANGED icons
    ELSE /\ icons' = Append(icons, [svg |-> call.svg, arg |-> call.arg,
                                    size |-> call.size,
                                    background |-> call.background,
                                    icon |-> icon])
         /\ pc' = "idle"
         /\ UNCHANGED frame

\* lines 21-22
CheckRenderer ==
    /\ pc = "L21"
    /\ IF RendererMissing
       THEN /\ Deliver(EmptyIcon)
            /\ call' = NoCall
       ELSE /\ pc' = "L24"
            /\ UNCHANGED <<frame, call, icons>>
    /\ UNCHANGED <<QSvgRenderer, heap, returned>>

\* line 24: calling None raises TypeError, which nothing catches.
MakeRenderer ==
    /\ pc = "L24"
    /\ IF QSvgRenderer = None
       THEN /\ pc' = "raised"
            /\ UNCHANGED call
       ELSE /\ call' = [call EXCEPT !.renderer = call.svg]
            /\ pc' = "L25"
    /\ UNCHANGED <<QSvgRenderer, frame, heap, returned, icons>>

\* line 25
MakePixmap ==
    /\ pc = "L25"
    /\ \E junk \in Uninitialised :
          LET p == NewPixmapId
              n == IF p > Len(heap) THEN p ELSE Len(heap)
          IN  /\ heap' = [j \in 1..n |->
                            IF j = p THEN NewPixmap(call.size, junk) ELSE heap[j]]
              /\ call' = [call EXCEPT !.pixmap = p]
    /\ pc' = "L26"
    /\ UNCHANGED <<QSvgRenderer, frame, returned, icons>>

\* lines 26-29
Fill ==
    /\ pc = "L26"
    /\ heap' = [heap EXCEPT ![call.pixmap] = Filled(@, FillColour(call.background))]
    /\ pc' = "L31"
    /\ UNCHANGED <<QSvgRenderer, frame, call, returned, icons>>

\* line 31
BeginPainter ==
    /\ pc = "L31"
    /\ heap' = [heap EXCEPT ![call.pixmap].painter = "active",
                            ![call.pixmap].log = Append(@, "QPainter")]
    /\ call' = [call EXCEPT !.hints = {}]
    /\ pc' = "L32"
    /\ UNCHANGED <<QSvgRenderer, frame, returned, icons>>

\* line 32
SetRenderHint ==
    /\ pc = "L32"
    /\ call' = [call EXCEPT !.hints = @ \cup {Antialiasing}]
    /\ heap' = [heap EXCEPT ![call.pixmap].log = Append(@, "setRenderHint")]
    /\ pc' = "L33"
    /\ UNCHANGED <<QSvgRenderer, frame, returned, icons>>

\* line 33
Render ==
    /\ pc = "L33"
    /\ heap' = [heap EXCEPT ![call.pixmap] = Rendered(@, call.renderer, call.hints)]
    /\ pc' = "L34"
    /\ UNCHANGED <<QSvgRenderer, frame, call, returned, icons>>

\* line 34
EndPainter ==
    /\ pc = "L34"
    /\ heap' = [heap EXCEPT ![call.pixmap].painter = "ended",
                            ![call.pixmap].log = Append(@, "end")]
    /\ pc' = "L35"
    /\ UNCHANGED <<QSvgRenderer, frame, call, returned, icons>>

\* line 35
ReturnIcon ==
    /\ pc = "L35"
    /\ Deliver(PixmapIcon(call.pixmap))
    /\ call' = NoCall
    /\ UNCHANGED <<QSvgRenderer, heap, returned>>

Next ==
    \/ CallToolbarIcons
    \/ BuildBase
    \/ BuildSvgs
    \/ Comprehension
    \/ CallSvgIcon
    \/ CheckRenderer
    \/ MakeRenderer
    \/ MakePixmap
    \/ Fill
    \/ BeginPainter
    \/ SetRenderHint
    \/ Render
    \/ EndPainter
    \/ ReturnIcon

Spec == Init /\ [][Next]_vars

----------------------------------------------------------------------------
\* Properties.

TenNames ==
    {"pan", "zoom_in", "zoom_out", "show_all", "rotate_left", "rotate_right",
     "reset_view", "edit", "erase", "undo"}

IsIcon(v) == v = EmptyIcon \/ (\E p \in DOMAIN heap : v = PixmapIcon(p))

\* The bitmap behind icon v is s x s.
BackedBySquare(v, s) ==
    /\ ~v.null
    /\ v.pixmap \in DOMAIN heap
    /\ heap[v.pixmap].w = s
    /\ heap[v.pixmap].h = s

\* C1: every mapping toolbar_icons returns has exactly the ten names as its
\* keys, each mapped to one icon, with or without the renderer.
C1_ExactlyTenKeys ==
    \A i \in DOMAIN returned :
        /\ returned[i].size > 0
        /\ DOMAIN returned[i].result = TenNames
        /\ Cardinality(DOMAIN returned[i].result) = 10
        /\ \A k \in DOMAIN returned[i].result : IsIcon(returned[i].result[k])

C1_Witness ==
    /\ Len(returned) = 2
    /\ returned[1].size # returned[2].size
    /\ QSvgRenderer # None

\* C2 as stated: every value of every returned mapping is backed by an
\* s x s bitmap.
C2_Original ==
    \A i \in DOMAIN returned : \A k \in DOMAIN returned[i].result :
        BackedBySquare(returned[i].result[k], returned[i].size)

\* C2 amended: when the renderer is available, every value of every returned
\* mapping is backed by an s x s bitmap.
C2_SquareWhenRendered ==
    QSvgRenderer # None =>
        \A i \in DOMAIN returned : \A k \in TenNames :
            /\ k \in DOMAIN returned[i].result
            /\ BackedBySquare(returned[i].result[k], returned[i].size)

C2_Witness ==
    /\ QSvgRenderer # None
    /\ \E i \in DOMAIN returned : returned[i].size = 128

\* C3: without the renderer _svg_icon returns the empty icon and touches no
\* bitmap or painter; toolbar_icons never raises, can always take its next
\* step, and every value it returns is the empty icon.
C3_DegradeToEmpty ==
    QSvgRenderer = None =>
        /\ heap = <<>>
        /\ pc \in {"idle", "L44", "L51", "L127", "L21"}
        /\ call.pixmap = 0 /\ call.renderer = "" /\ call.hints = {}
        /\ \A k \in DOMAIN frame.result : frame.result[k] = EmptyIcon
        /\ \A i \in DOMAIN icons : icons[i].icon = EmptyIcon
        /\ \A i \in DOMAIN returned :
              /\ DOMAIN returned[i].result = TenNames
              /\ \A k \in TenNames : returned[i].result[k] = EmptyIcon
        /\ (pc # "idle" => ENABLED Next)

C3_Witness ==
    /\ QSvgRenderer = None
    /\ Len(returned) >= 1
    /\ Len(icons) >= 1

\* Text helpers: the first index >= i at which pat occurs in s (0: nowhere),
\* and the value of attribute name="..." of the opening tag.
Find(s, pat, i) ==
    LET hits == {j \in i..(Len(s) - Len(pat) + 1) :
                    SubSeq(s, j, j + Len(pat) - 1) = pat}
    IN  IF hits = {} THEN 0 ELSE CHOOSE j \in hits : \A h \in hits : j <= h

ValueStart(s, name) ==
    LET at == Find(s, " " \o name \o "=\"", 1)
    IN  IF at = 0 THEN 0 ELSE at + Len(name) + 3

ValueEnd(s, from) == Find(s, "\"", from) - 1

AttrValue(s, name) ==
    LET a == ValueStart(s, name)
    IN  IF a = 0 THEN "<absent>" ELSE SubSeq(s, a, ValueEnd(s, a))

\* s with the values of its width and height attributes cut out.
WithoutSize(s) ==
    LET w1 == ValueStart(s, "width")
        w2 == ValueEnd(s, w1)
        h1 == ValueStart(s, "height")
        h2 == ValueEnd(s, h1)
    IN  SubSeq(s, 1, w1 - 1) \o SubSeq(s, w2 + 1, h1 - 1) \o SubSeq(s, h2 + 1, Len(s))

\* What icon v shows, read from heap h: nothing for the empty icon.
BitmapIn(h, v) ==
    IF v.null THEN [w |-> 0, h |-> 0, pixels |-> [fill |-> "", drawn |-> <<>>]]
    ELSE [w |-> h[v.pixmap].w, h |-> h[v.pixmap].h, pixels |-> h[v.pixmap].pixels]

\* C4: two completed toolbar_icons calls with the same size built the same
\* document for every key and returned pixel-identical bitmaps of the same
\* size over the same background; so did two _svg_icon calls with the same
\* document, size and background, the calls toolbar_icons is made of.
C4_Deterministic ==
    /\ \A i \in DOMAIN returned : \A j \in DOMAIN returned :
          returned[i].size = returned[j].size =>
              /\ returned[i].svgs = returned[j].svgs
              /\ \A k \in TenNames :
                    BitmapIn(heap, returned[i].result[k])
                        = BitmapIn(heap, returned[j].result[k])
    /\ \A i \in DOMAIN icons : \A j \in DOMAIN icons :
          (/\ icons[i].svg = icons[j].svg
           /\ icons[i].size = icons[j].size
           /\ icons[i].background = icons[j].background) =>
              BitmapIn(heap, icons[i].icon) = BitmapIn(heap, icons[j].icon)

C4_Witness ==
    /\ QSvgRenderer # None
    /\ Len(returned) = 2
    /\ returned[1].size = returned[2].size
    /\ returned[1].result["pan"].pixmap # returned[2].result["pan"].pixmap

\* C5 as stated: a call without argument has width="24" height="24" in its
\* header and maps each of the ten keys to a 24 x 24 icon.
C5_Original ==
    \A i \in DOMAIN returned :
        ~returned[i].arg.given =>
            /\ AttrValue(returned[i].base, "width") = "24"
            /\ AttrValue(returned[i].base, "height") = "24"
            /\ \A k \in TenNames : BackedBySquare(returned[i].result[k], 24)

\* C5 amended: a call without argument has width="24" height="24" in its
\* header and returns what toolbar_icons(24) returns: ten 24 x 24 icons when
\* the renderer is available, ten empty icons when it is not.
C5_DefaultIs24 ==
    \A i \in DOMAIN returned :
        ~returned[i].arg.given =>
            /\ AttrValue(returned[i].base, "width") = "24"
            /\ AttrValue(returned[i].base, "height") = "24"
            /\ \A k \in TenNames :
                  IF QSvgRenderer = None
                  THEN returned[i].result[k] = EmptyIcon
                  ELSE BackedBySquare(returned[i].result[k], 24)
            /\ \A j \in DOMAIN returned :
                  (returned[j].arg.given /\ returned[j].arg.value = 24) =>
                      /\ returned[j].base = returned[i].base
                      /\ returned[j].svgs = returned[i].svgs
                      /\ \A k \in TenNames :
                            BitmapIn(heap, returned[j].result[k])
                                = BitmapIn(heap, returned[i].result[k])

C5_Witness ==
    /\ QSvgRenderer # None
    /\ \E i \in DOMAIN returned : ~returned[i].arg.given
    /\ \E j \in DOMAIN returned : returned[j].arg.given /\ returned[j].arg.value = 24

\* C6: no step changes the renderer capability, a mapping or icon already
\* returned, or the bitmap behind a returned icon; between calls no local
\* survives, and a call starts with no header, table or result.
C6_NoStateBetweenCalls ==
    [][ /\ QSvgRenderer' = QSvgRenderer
        /\ Len(returned') >= Len(returned)
        /\ \A i \in DOMAIN returned :
              /\ returned'[i] = returned[i]
              /\ \A k \in DOMAIN returned[i].result :
                    BitmapIn(heap', returned[i].result[k])
                        = BitmapIn(heap, returned[i].result[k])
        /\ Len(icons') >= Len(icons)
        /\ \A i \in DOMAIN icons :
              /\ icons'[i] = icons[i]
              /\ BitmapIn(heap', icons[i].icon) = BitmapIn(heap, icons[i].icon)
        /\ (pc' = "idle" => frame' = NoFrame /\ call' = NoCall)
        /\ (pc' = "L44" =>
              /\ frame'.base = ""
              /\ frame'.svgs = EmptyDict
              /\ frame'.result = EmptyDict)
      ]_vars

C6_Witness ==
    /\ Len(returned) = 1
    /\ pc = "L35"
    /\ call.caller = "toolbar_icons"
    /\ frame.size # returned[1].size
    /\ frame.i = Len(SvgKeys)

\* The attributes of the header that do not depend on the size.
FixedStyle(base) ==
    /\ AttrValue(base, "xmlns") = "http://www.w3.org/2000/svg"
    /\ AttrValue(base, "viewBox") = "0 0 24 24"
    /\ AttrValue(base, "fill") = "none"
    /\ AttrValue(base, "stroke") = "black"
    /\ AttrValue(base, "stroke-width") = "1.4"
    /\ AttrValue(base, "stroke-linecap") = "round"
    /\ AttrValue(base, "stroke-linejoin") = "round"

\* doc is head, then middle, then tail, and nothing else.
IsConcat(doc, head, middle, tail) ==
    /\ Len(doc) = Len(head) + Len(middle) + Len(tail)
    /\ SubSeq(doc, 1, Len(head)) = head
    /\ SubSeq(doc, Len(head) + 1, Len(head) + Len(middle)) = middle
    /\ SubSeq(doc, Len(head) + Len(middle) + 1, Len(doc)) = tail

\* C8: each document of a call is its header, the name's literal fragment and
\* "</svg>"; the header's width and height are the size in decimal, its other
\* attributes are the fixed style; documents of two calls are equal once the
\* width and height values are cut out.
C8_DocumentShape ==
    pc = "idle" =>
        \A i \in DOMAIN returned :
            /\ SubSeq(returned[i].base, 1, 5) = "<svg "
            /\ AttrValue(returned[i].base, "width") = IntToStr(returned[i].size)
            /\ AttrValue(returned[i].base, "height") = IntToStr(returned[i].size)
            /\ FixedStyle(returned[i].base)
            /\ DOMAIN returned[i].svgs = TenNames
            /\ \A k \in TenNames :
                  IsConcat(returned[i].svgs[k], returned[i].base, Fragment(k), "</svg>")
            /\ \A j \in DOMAIN returned : \A k \in TenNames :
                  WithoutSize(returned[i].svgs[k]) = WithoutSize(returned[j].svgs[k])

C8_Witness ==
    /\ pc = "idle"
    /\ Len(returned) = 2
    /\ returned[1].size = 7
    /\ returned[2].size = 128
    /\ returned[1].svgs["edit"] # returned[2].svgs["edit"]

\* The statements _svg_icon applies to a bitmap, in source order.
RenderSteps == <<"QPixmap", "fill", "QPainter", "setRenderHint", "render", "end">>

\* Bitmap p was filled with colour and then had svg rendered on it once, with
\* anti-aliasing, by a painter that has ended.
FinishedBitmap(p, svg, size, colour) ==
    /\ p \in DOMAIN heap
    /\ heap[p].log = RenderSteps
    /\ heap[p].painter = "ended"
    /\ heap[p].w = size /\ heap[p].h = size
    /\ heap[p].pixels =
          [fill |-> colour,
           drawn |-> <<[svg |-> svg, hints |-> {Antialiasing}, w |-> size, h |-> size]>>]

\* C9: with the renderer, every bitmap goes through allocate, fill, painter,
\* anti-aliasing hint, render, end, in that order, before it is wrapped; the
\* fill is transparent without a background and the given colour otherwise;
\* toolbar_icons' bitmaps are all filled transparent; only the bitmap of the
\* running _svg_icon call is unfinished, so a painter has ended before the
\* next bitmap exists.
C9_RenderOrder ==
    QSvgRenderer # None =>
        /\ \A p \in DOMAIN heap :
              /\ Len(heap[p].log) <= Len(RenderSteps)
              /\ heap[p].log = SubSeq(RenderSteps, 1, Len(heap[p].log))
              /\ (heap[p].painter = "active" <=>
                     Len(heap[p].log) \in {3, 4, 5})
              /\ (heap[p].pixels.drawn # <<>> =>
                     heap[p].pixels.fill \notin Uninitialised)
              /\ (p # call.pixmap => heap[p].log = RenderSteps)
        /\ \A i \in DOMAIN icons :
              /\ ~icons[i].icon.null
              /\ FinishedBitmap(icons[i].icon.pixmap, icons[i].svg, icons[i].size,
                                IF icons[i].background = None
                                THEN Transparent ELSE icons[i].background)
        /\ \A i \in DOMAIN returned : \A k \in DOMAIN returned[i].result :
              /\ ~returned[i].result[k].null
              /\ FinishedBitmap(returned[i].result[k].pixmap, returned[i].svgs[k],
                                returned[i].size, Transparent)
        /\ \A k \in DOMAIN frame.result :
              /\ ~frame.result[k].null
              /\ FinishedBitmap(frame.result[k].pixmap, frame.svgs[k],
                                frame.size, Transparent)

C9_Witness ==
    /\ QSvgRenderer # None
    /\ Len(returned) = 1
    /\ \E i \in DOMAIN icons :
          icons[i].background # None /\ ~icons[i].arg.given

\* The icons of mapping m are all rendered or all empty.
AllOrNothing(m) ==
    \/ \A k \in DOMAIN m : m[k].null
    \/ \A k \in DOMAIN m : ~m[k].null

\* C10: no step changes the renderer capability, and every mapping, returned
\* or being built, holds only rendered icons or only empty icons.
C10_NeverMixed ==
    [][ /\ QSvgRenderer' = QSvgRenderer
        /\ AllOrNothing(frame'.result)
        /\ \A i \in DOMAIN returned' : AllOrNothing(returned'[i].result)
      ]_vars

C10_Witness ==
    /\ Len(returned) = 2
    /\ QSvgRenderer # None
    /\ pc = "idle"
    /\ \A k \in TenNames : ~returned[2].result[k].null

\* The bitmaps behind the icons of mapping m, read from heap h, are distinct
\* objects, each showing one rendering of the document m's key has in docs.
OwnBitmaps(h, m, docs) ==
    \A k \in DOMAIN m :
        ~m[k].null =>
            /\ \A k2 \in DOMAIN m : k2 # k => m[k2].pixmap # m[k].pixmap
            /\ Len(h[m[k].pixmap].pixels.drawn) = 1
            /\ h[m[k].pixmap].pixels.drawn[1].svg = docs[k]

\* C7: each key's icon has a bitmap of its own, rendered once from that key's
\* document; the steps taken for one key leave the documents of all keys and
\* the icons and bitmaps already made for other keys as they were.
C7_KeysIndependent ==
    [][ /\ OwnBitmaps(heap', frame'.result, frame'.svgs)
        /\ \A i \in DOMAIN returned' :
              OwnBitmaps(heap', returned'[i].result, returned'[i].svgs)
        /\ (pc \notin {"L51", "L127"} \/ pc' = "L21") =>
              /\ frame'.svgs = frame.svgs
              /\ \A k \in DOMAIN frame.result :
                    /\ k \in DOMAIN frame'.result
                    /\ frame'.result[k] = frame.result[k]
                    /\ BitmapIn(heap', frame.result[k]) = BitmapIn(heap, frame.result[k])
      ]_vars

C7_Witness ==
    /\ QSvgRenderer # None
    /\ pc = "L34"
    /\ call.caller = "toolbar_icons"
    /\ frame.i = 3
    /\ DOMAIN frame.result = {"pan", "zoom_in"}

====
